---- MODULE Spec2Model ----
(***************************************************************************)
(* DirPurge: retention engine (src/src/purge_engine.py), purge executor    *)
(* (same file), directory scanner (src/src/file_scanner.py) and the        *)
(* pipeline of main (src/src/main.py).                                     *)
(*                                                                         *)
(* Time is counted in ticks; one day is TicksPerDay ticks, so that         *)
(* timedelta(days=n) is n * TicksPerDay ticks and a modification time can  *)
(* fall strictly between two day boundaries.                               *)
(***************************************************************************)
EXTENDS Integers, Sequences, FiniteSets, TLC

\* ---------------------------------------------------------------- bounds
MaxFiles == 3        \* records in one group handed to the retention engine
MaxTime == 4         \* modification times and clock readings are 0..MaxTime
MaxKeep == 4         \* min_files_to_keep ranges over 0..MaxKeep
MaxAgeDays == 2      \* max_age_days ranges over 0..MaxAgeDays
TicksPerDay == 2     \* clock ticks per day

VARIABLES
    \* ---- retention engine (PurgeEngine fields and one call of
    \*      _apply_preservation_rules)
    min_files_to_keep,   \* PurgeEngine.min_files_to_keep
    max_age_days,        \* PurgeEngine.max_age_days
    clock,               \* the wall clock datetime.now() reads
    files,               \* argument of _apply_preservation_rules
    now,                 \* value datetime.now() returned at line 38
    sorted_list,         \* local sorted_files of _apply_preservation_rules
    files_to_preserve,   \* first component of the returned tuple
    files_to_delete,     \* second component of the returned tuple
    rules_pc,            \* "call" | "returned" ("idle": engine not in use)
    \* ---- purge executor (one call of execute_purge(files_to_delete,
    \*      dry_run)); files_to_delete above is its first argument
    dry_run,             \* second argument of execute_purge
    disk,                \* the paths that exist on the filesystem
    purge_i,             \* 1-based position of the loop of line 69
    actual_deletions,    \* local of execute_purge
    errors,              \* local of execute_purge: one entry per message
    attempts,            \* history: the calls of os.remove, in order, each
                         \* [path, ok] with ok true iff the file was removed,
                         \* and with the class of the exception raised if not
    purge_result,        \* the PurgeResult returned (NoResult before)
    purge_pc,            \* "call" | "loop" | "dry" | "finish" | "returned"
    \* ---- directory scanner (FileScanner and one call of scan_directory)
    excluded_arg,        \* argument of FileScanner.__init__
    excluded_extensions, \* FileScanner.excluded_extensions
    target_kind,         \* what directory_path is: "dir" | "missing" |
                         \* "not_dir" | "unreadable"
    entries,             \* what os.scandir yields, in its order
    pos,                 \* 1-based position of the loop of line 42
    scanned_files,       \* local `files` of _extract_file_info
    warnings,            \* names of the entries the warning of line 68 names
    file_groups,         \* the dict scan_directory returns, in key order
    scan_error,          \* the ValueError scan_directory raised (NoError)
    scan_pc,             \* "new" | "ready" | "entries" | "returned" | "raised"
    \* ---- main (one run of main(args))
    config,              \* the merged configuration: min_files_to_keep,
                         \* max_age_days, dry_run
    group_i,             \* 1-based position of the loop of
                         \* determine_files_to_purge (line 22)
    determined_preserve, \* local files_to_preserve of determine_files_to_purge
    determined_delete,   \* local files_to_delete of determine_files_to_purge
    total_files,         \* local of main (line 130)
    file_sets_found,     \* local of main (line 131)
    report,              \* what save_report wrote (NoReport before)
    exit_code,           \* the value main returned ("none" before)
    main_pc,             \* "start" | "init" | "scan" | "decide" | "purge" |
                         \* "xlsx" | "exit" ("idle": main not running)
    \* ---- report file (Reporter.save_report)
    timestamp,           \* argument of save_report (NoTimestamp: not in use)
    year_padded,         \* whether the platform's strftime pads %Y to 4 digits
    filename,            \* what format_filename returned (<<>> before)
    parsed,              \* what strptime made of the date part (NotParsed)
    \* ---- configuration (ConfigManager)
    ini_config,          \* the dictionary load_ini_config returned
    cli_args,            \* the parsed command line (argparse namespace)
    cli_config,          \* the dictionary parse_cli_args returned
    merged_config        \* the dictionary merge_configs returned

rulesVars == <<min_files_to_keep, max_age_days, clock, files, now,
               sorted_list, files_to_preserve, files_to_delete, rules_pc>>

purgeVars == <<dry_run, disk, purge_i, actual_deletions, errors, attempts,
               purge_result, purge_pc>>

scanVars == <<excluded_arg, excluded_extensions, target_kind, entries, pos,
              scanned_files, warnings, file_groups, scan_error, scan_pc>>

mainVars == <<config, group_i, determined_preserve, determined_delete,
              total_files, file_sets_found, report, exit_code, main_pc>>

reporterVars == <<timestamp, year_padded, filename, parsed>>

configVars == <<ini_config, cli_args, cli_config, merged_config>>

vars == <<rulesVars, purgeVars, scanVars, mainVars, reporterVars, configVars>>

\* ------------------------------------------------------------- helpers
Range(s) == {s[j] : j \in 1..Len(s)}

Min(a, b) == IF a <= b THEN a ELSE b

\* ------------------------------------------------- retention engine code

timedeltaBackwards(days) == 0 - days * TicksPerDay

\* timedelta(days=d), in ticks
timedelta(days) == days * TicksPerDay

RECURSIVE InsertOldestFirst(_, _)
InsertOldestFirst(s, r) ==
    IF s = <<>> THEN <<r>>
    ELSE IF s[1].modified_time <= r.modified_time
         THEN <<s[1]>> \o InsertOldestFirst(Tail(s), r)
         ELSE <<r>> \o s

RECURSIVE InsertBeforeEqual(_, _)
InsertBeforeEqual(s, r) ==
    IF s = <<>> THEN <<r>>
    ELSE IF s[1].modified_time > r.modified_time
         THEN <<s[1]>> \o InsertBeforeEqual(Tail(s), r)
         ELSE <<r>> \o s

\* sorted(..., reverse=True) is stable: a record is placed after every
\* record whose key is greater than or equal to its own.
RECURSIVE InsertNewestFirst(_, _)
InsertNewestFirst(s, r) ==
    IF s = <<>> THEN <<r>>
    ELSE IF s[1].modified_time >= r.modified_time
         THEN <<s[1]>> \o InsertNewestFirst(Tail(s), r)
         ELSE <<r>> \o s

SortNothing(fs) == fs

RECURSIVE _sort_files_by_date(_)
_sort_files_by_date(fs) ==
    IF fs = <<>> THEN <<>>
    ELSE InsertNewestFirst(_sort_files_by_date(SubSeq(fs, 1, Len(fs) - 1)),
                           fs[Len(fs)])

\* the condition of line 45; i is the 0-based index of enumerate()
PreserveIfGeq(i, file_info, m, age_threshold) ==
    i < m \/ file_info.modified_time >= age_threshold

PreserveIfAnd(i, file_info, m, age_threshold) ==
    i < m /\ file_info.modified_time > age_threshold

PreserveIfCountOnly(i, file_info, m, age_threshold) ==
    i < m

PreserveIfRankAtLeast(i, file_info, m, age_threshold) ==
    i >= m \/ file_info.modified_time > age_threshold

PreserveIf(i, file_info, m, age_threshold) ==
    i < m \/ file_info.modified_time > age_threshold

\* the loop of lines 43-48 from (1-based) position j on
RECURSIVE WalkBoth(_, _, _, _, _)
WalkBoth(sorted_files, j, m, age_threshold, acc) ==
    IF j > Len(sorted_files) THEN acc
    ELSE LET file_info == sorted_files[j]
             keep == PreserveIf(j - 1, file_info, m, age_threshold)
             old == ~(file_info.modified_time > age_threshold)
         IN  WalkBoth(sorted_files, j + 1, m, age_threshold,
                 [preserve |-> IF keep THEN Append(acc.preserve, file_info)
                               ELSE acc.preserve,
                  delete   |-> IF old THEN Append(acc.delete, file_info)
                               ELSE acc.delete])

RECURSIVE Walk(_, _, _, _, _)
Walk(sorted_files, j, m, age_threshold, acc) ==
    IF j > Len(sorted_files) THEN acc
    ELSE LET file_info == sorted_files[j]
         IN  IF PreserveIf(j - 1, file_info, m, age_threshold)
             THEN Walk(sorted_files, j + 1, m, age_threshold,
                       [acc EXCEPT !.preserve = Append(@, file_info)])
             ELSE Walk(sorted_files, j + 1, m, age_threshold,
                       [acc EXCEPT !.delete = Append(@, file_info)])

\* PurgeEngine._apply_preservation_rules, given the clock reading t
_apply_preservation_rules(fs, m, age_days, t) ==
    IF fs = <<>> THEN [preserve |-> <<>>, delete |-> <<>>]
    ELSE LET sorted_files == _sort_files_by_date(fs)
             age_threshold == t - timedelta(age_days)
         IN  Walk(sorted_files, 1, m, age_threshold,
                  [preserve |-> <<>>, delete |-> <<>>])

\* ------------------------------------------------ components not in use
NoResult == [status |-> "none"]

PurgeIdle ==
    /\ dry_run = FALSE
    /\ disk = {}
    /\ purge_i = 0
    /\ actual_deletions = 0
    /\ errors = <<>>
    /\ attempts = <<>>
    /\ purge_result = NoResult
    /\ purge_pc = "idle"

NoError == [exc |-> "none"]

ScanIdle ==
    /\ excluded_arg = <<>>
    /\ excluded_extensions = <<>>
    /\ target_kind = "dir"
    /\ entries = <<>>
    /\ pos = 0
    /\ scanned_files = <<>>
    /\ warnings = <<>>
    /\ file_groups = <<>>
    /\ scan_error = NoError
    /\ scan_pc = "idle"

RulesIdle ==
    /\ min_files_to_keep = 0
    /\ max_age_days = 0
    /\ clock = 0
    /\ files = <<>>
    /\ now = 0
    /\ sorted_list = <<>>
    /\ files_to_preserve = <<>>
    /\ rules_pc = "idle"

NoReport == [status |-> "none"]

NoTimestamp == [status |-> "none"]

NotParsed == [status |-> "none"]

ReporterIdle ==
    /\ timestamp = NoTimestamp
    /\ year_padded = TRUE
    /\ filename = <<>>
    /\ parsed = NotParsed

NoConfig == [status |-> "none"]

ConfigIdle ==
    /\ ini_config = NoConfig
    /\ cli_args = NoConfig
    /\ cli_config = NoConfig
    /\ merged_config = NoConfig

MainIdle ==
    /\ config = [min_files_to_keep |-> 0, max_age_days |-> 0,
                 dry_run |-> FALSE]
    /\ group_i = 0
    /\ determined_preserve = <<>>
    /\ determined_delete = <<>>
    /\ total_files = 0
    /\ file_sets_found = 0
    /\ report = NoReport
    /\ exit_code = "none"
    /\ main_pc = "idle"

\* --------------------------------------------- retention engine: inputs

\* A group of k records; a record is identified by its path, and the
\* records of one group have pairwise different paths.
Groups ==
    UNION { { [j \in 1..k |-> [path |-> j, modified_time |-> mt[j]]]
              : mt \in [1..k -> 0..MaxTime] } : k \in 0..MaxFiles }

RulesInit ==
    /\ min_files_to_keep \in 0..MaxKeep
    /\ max_age_days \in 0..MaxAgeDays
    /\ clock = 0
    /\ files \in Groups
    /\ now = 0
    /\ sorted_list = <<>>
    /\ files_to_preserve = <<>>
    /\ files_to_delete = <<>>
    /\ rules_pc = "call"
    /\ PurgeIdle
    /\ ScanIdle
    /\ MainIdle
    /\ ReporterIdle
    /\ ConfigIdle

\* time passes between the call of _apply_preservation_rules and its
\* reading of the clock
ClockTick ==
    /\ rules_pc = "call"
    /\ clock < MaxTime
    /\ clock' = clock + 1
    /\ UNCHANGED <<min_files_to_keep, max_age_days, files, now, sorted_list,
                   files_to_preserve, files_to_delete, rules_pc>>
    /\ UNCHANGED purgeVars
    /\ UNCHANGED scanVars
    /\ UNCHANGED mainVars
    /\ UNCHANGED <<reporterVars, configVars>>

\* one call of _apply_preservation_rules(files)
ApplyPreservationRules ==
    /\ rules_pc = "call"
    /\ LET r == _apply_preservation_rules(files, min_files_to_keep,
                                          max_age_days, clock)
       IN  /\ files_to_preserve' = r.preserve
           /\ files_to_delete' = r.delete
    /\ now' = clock
    /\ sorted_list' = IF files = <<>> THEN sorted_list
                       ELSE _sort_files_by_date(files)
    /\ rules_pc' = "returned"
    /\ UNCHANGED <<min_files_to_keep, max_age_days, clock, files>>
    /\ UNCHANGED purgeVars
    /\ UNCHANGED scanVars
    /\ UNCHANGED mainVars
    /\ UNCHANGED <<reporterVars, configVars>>

RulesNext == ClockTick \/ ApplyPreservationRules

SpecRules == RulesInit /\ [][RulesNext]_vars

\* ------------------------------ retention engine: comparison of policies
\* The same call on smaller groups and policies, for the properties that
\* compare its result with the results of further calls.
PolicyFiles == 3     \* records in the group
PolicyTime == 2      \* modification times are 0..PolicyTime
PolicyKeep == 2      \* min_files_to_keep ranges over 0..PolicyKeep
PolicyAge == 1       \* max_age_days ranges over 0..PolicyAge

PolicyGroups ==
    UNION { { [j \in 1..k |-> [path |-> j, modified_time |-> mt[j]]]
              : mt \in [1..k -> 0..PolicyTime] } : k \in 0..PolicyFiles }

PolicyInit ==
    /\ min_files_to_keep \in 0..PolicyKeep
    /\ max_age_days \in 0..PolicyAge
    /\ clock = 0
    /\ files \in PolicyGroups
    /\ now = 0
    /\ sorted_list = <<>>
    /\ files_to_preserve = <<>>
    /\ files_to_delete = <<>>
    /\ rules_pc = "call"
    /\ PurgeIdle
    /\ ScanIdle
    /\ MainIdle
    /\ ReporterIdle
    /\ ConfigIdle

SpecPolicy == PolicyInit /\ [][RulesNext]_vars

\* ------------------------------- retention engine: the end-to-end example
\* tests/test_integration.py, test_end_to_end_dry_run: the groups "backup"
\* (files 1, 10, 100 and 500 days old) and "report" (5 and 400 days old)
\* under --min-files 2 --max-age 365.  The files are dated before the run
\* starts at clock 0, in any directory order.
ExampleMinFiles == 2
ExampleMaxAge == 365

ExampleAges == { <<1, 10, 100, 500>>, <<5, 400>> }

ExampleGroups ==
    UNION { { [j \in 1..Len(ages) |->
                  [path |-> j,
                   modified_time |-> 0 - timedelta(ages[p[j]])]]
              : p \in {q \in [1..Len(ages) -> 1..Len(ages)] :
                          \A a, b \in 1..Len(ages) : q[a] = q[b] => a = b} }
            : ages \in ExampleAges }

ExampleInit ==
    /\ min_files_to_keep = ExampleMinFiles
    /\ max_age_days = ExampleMaxAge
    /\ clock = 0
    /\ files \in ExampleGroups
    /\ now = 0
    /\ sorted_list = <<>>
    /\ files_to_preserve = <<>>
    /\ files_to_delete = <<>>
    /\ rules_pc = "call"
    /\ PurgeIdle
    /\ ScanIdle
    /\ MainIdle
    /\ ReporterIdle
    /\ ConfigIdle

SpecExample == ExampleInit /\ [][RulesNext]_vars


\* ------------------------------------------------------- purge executor

\* the errors os.remove raises on a path that exists / does not exist,
\* each named by its errno; all of them are OSError, which line 81 catches
RemoveErrorsPresent == {"EACCES", "EPERM", "EBUSY"}
RemoveErrorsAbsent == {"ENOENT", "EACCES"}

\* the class of the exception `e` of line 81: Python raises the subclass
\* of OSError that belongs to the errno
ErrorClass(e) ==
    CASE e = "ENOENT" -> "FileNotFoundError"
      [] e \in {"EACCES", "EPERM"} -> "PermissionError"
      [] OTHER -> "OSError"

ErrorMsgWithoutCause(path, e) ==
    [failed_to_delete |-> path, os_error |-> "error"]

\* f"Failed to delete {file_info.path}: {e}" (line 82): str(e) is the errno
\* and its text, "[Errno 13] Permission denied: ..."; it does not name the
\* class of e
ErrorMsg(path, e) == [failed_to_delete |-> path, os_error |-> e]

\* the purge lists: up to MaxFiles records over MaxFiles paths, in any
\* order, a path possibly more than once
PurgeLists ==
    UNION { [1..k -> {[path |-> p, modified_time |-> 0] : p \in 1..MaxFiles}]
            : k \in 0..MaxFiles }

PurgeInit ==
    /\ files_to_delete \in PurgeLists
    /\ dry_run \in BOOLEAN
    /\ disk \in SUBSET (1..MaxFiles)
    /\ purge_i = 0
    /\ actual_deletions = 0
    /\ errors = <<>>
    /\ attempts = <<>>
    /\ purge_result = NoResult
    /\ purge_pc = "call"
    /\ RulesIdle
    /\ ScanIdle
    /\ MainIdle
    /\ ReporterIdle
    /\ ConfigIdle

BranchIgnoresDryRun(d) == "loop"

\* `if not dry_run:` (line 68) with its else of line 85
Branch(d) == IF ~d THEN "loop" ELSE "dry"

\* lines 58-68: the locals are set and the branch on dry_run is taken
ExecutePurgeBegin ==
    /\ purge_pc = "call"
    /\ actual_deletions' = 0
    /\ errors' = <<>>
    /\ purge_i' = 1
    /\ purge_pc' = Branch(dry_run)
    /\ UNCHANGED <<dry_run, disk, attempts, purge_result>>
    /\ UNCHANGED rulesVars
    /\ UNCHANGED scanVars
    /\ UNCHANGED mainVars
    /\ UNCHANGED <<reporterVars, configVars>>

AfterFailureStop(n) == Len(files_to_delete) + 1

\* the position the loop of line 69 takes up after the handler of
\* lines 81-84 has run at position n
AfterFailure(n) == n + 1

\* lines 69-72: os.remove succeeds on the record at purge_i
RemoveSucceeds ==
    /\ purge_pc = "loop"
    /\ purge_i <= Len(files_to_delete)
    /\ LET path == files_to_delete[purge_i].path
       IN  /\ path \in disk
           /\ disk' = disk \ {path}
           /\ attempts' = Append(attempts, [path |-> path, ok |-> TRUE])
    /\ actual_deletions' = actual_deletions + 1
    /\ purge_i' = purge_i + 1
    /\ UNCHANGED <<dry_run, errors, purge_result, purge_pc>>
    /\ UNCHANGED rulesVars
    /\ UNCHANGED scanVars
    /\ UNCHANGED mainVars
    /\ UNCHANGED <<reporterVars, configVars>>

\* lines 69-71 and 81-84: os.remove raises, the message is recorded and
\* the loop goes on with the next record
RemoveFails ==
    /\ purge_pc = "loop"
    /\ purge_i <= Len(files_to_delete)
    /\ LET path == files_to_delete[purge_i].path
       IN  /\ \E e \in (IF path \in disk THEN RemoveErrorsPresent
                        ELSE RemoveErrorsAbsent) :
                  /\ errors' = Append(errors, ErrorMsg(path, e))
                  /\ attempts' = Append(attempts,
                                        [path |-> path, ok |-> FALSE,
                                         raised |-> ErrorClass(e)])
    /\ purge_i' = AfterFailure(purge_i)
    /\ UNCHANGED <<dry_run, disk, actual_deletions, purge_result, purge_pc>>
    /\ UNCHANGED rulesVars
    /\ UNCHANGED scanVars
    /\ UNCHANGED mainVars
    /\ UNCHANGED <<reporterVars, configVars>>

\* line 69: the list is exhausted
LoopExit ==
    /\ purge_pc = "loop"
    /\ purge_i > Len(files_to_delete)
    /\ purge_pc' = "finish"
    /\ UNCHANGED <<dry_run, disk, purge_i, actual_deletions, errors, attempts,
                   purge_result>>
    /\ UNCHANGED rulesVars
    /\ UNCHANGED scanVars
    /\ UNCHANGED mainVars
    /\ UNCHANGED <<reporterVars, configVars>>

\* lines 85-87: the dry run counts every record as deleted
DryRunCount ==
    /\ purge_pc = "dry"
    /\ actual_deletions' = Len(files_to_delete)
    /\ purge_pc' = "finish"
    /\ UNCHANGED <<dry_run, disk, purge_i, errors, attempts, purge_result>>
    /\ UNCHANGED rulesVars
    /\ UNCHANGED scanVars
    /\ UNCHANGED mainVars
    /\ UNCHANGED <<reporterVars, configVars>>

\* lines 91-99
PurgeResult ==
    [total_files_scanned |-> 0,
     file_sets_found     |-> 0,
     files_to_delete     |-> files_to_delete,
     files_preserved     |-> <<>>,
     actual_deletions    |-> actual_deletions,
     errors              |-> errors]

ExecutePurgeReturn ==
    /\ purge_pc = "finish"
    /\ purge_result' = PurgeResult
    /\ purge_pc' = "returned"
    /\ UNCHANGED <<dry_run, disk, purge_i, actual_deletions, errors,
                   attempts>>
    /\ UNCHANGED rulesVars
    /\ UNCHANGED scanVars
    /\ UNCHANGED mainVars
    /\ UNCHANGED <<reporterVars, configVars>>

PurgeNext ==
    \/ ExecutePurgeBegin
    \/ RemoveSucceeds
    \/ RemoveFails
    \/ LoopExit
    \/ DryRunCount
    \/ ExecutePurgeReturn

SpecPurge == PurgeInit /\ [][PurgeNext]_vars


\* ---------------------------------------------------- directory scanner
\* A string is the sequence of its characters.

Delim == <<"_", "_">>

\* str.upper(), character by character
UpperChar(c) ==
    CASE c = "a" -> "A" [] c = "b" -> "B" [] c = "c" -> "C" [] c = "d" -> "D"
      [] c = "l" -> "L" [] c = "p" -> "P" [] c = "x" -> "X"
      [] OTHER -> c

upper(str) == [j \in 1..Len(str) |-> UpperChar(str[j])]

\* the default list of line 15
DefaultExcluded ==
    << <<".", "P", "L">>, <<".", "T", "X", "T">>,
       <<".", "C", "S", "V">>, <<".", "Z", "I", "P">> >>

\* FileScanner.__init__, lines 15-17: an empty list is falsy, so `or`
\* replaces it by the default list
Normalize(arg) ==
    LET chosen == IF arg = <<>> THEN DefaultExcluded ELSE arg
    IN  [j \in 1..Len(chosen) |-> upper(chosen[j])]

\* str.find("__", p - 1) + 1: the first position >= p where "__" starts,
\* 0 if there is none
RECURSIVE Find(_, _)
Find(name, p) ==
    IF p + 1 > Len(name) THEN 0
    ELSE IF SubSeq(name, p, p + 1) = Delim THEN p
    ELSE Find(name, p + 1)

\* str.rfind("__") + 1
RECURSIVE RFind(_, _)
RFind(name, p) ==
    IF p < 1 THEN 0
    ELSE IF SubSeq(name, p, p + 1) = Delim THEN p
    ELSE RFind(name, p - 1)

\* `"__" in name`, line 50
InName(name) == Find(name, 1) # 0

\* name.split("__")[0], line 51
SplitLast(name) ==
    IF RFind(name, Len(name) - 1) = 0 THEN name
    ELSE SubSeq(name, 1, RFind(name, Len(name) - 1) - 1)

Split0(name) ==
    IF Find(name, 1) = 0 THEN name
    ELSE SubSeq(name, 1, Find(name, 1) - 1)

\* name.rfind(".") + 1
RECURSIVE RFindDot(_, _)
RFindDot(name, p) ==
    IF p < 1 THEN 0
    ELSE IF name[p] = "." THEN p
    ELSE RFindDot(name, p - 1)

\* pathlib's PurePath.suffix of a file name: from the last dot on, unless
\* that dot is the first or the last character
suffix(name) ==
    LET p == RFindDot(name, Len(name))
    IN  IF 1 < p /\ p < Len(name) THEN SubSeq(name, p, Len(name)) ELSE <<>>

\* the FileInfo of lines 56-63 (size plays no part and is left out)
FileInfo(entry) ==
    [path          |-> entry.name,
     name          |-> entry.name,
     prefix        |-> Split0(entry.name),
     modified_time |-> entry.st_mtime,
     extension     |-> upper(suffix(entry.name))]

\* _filter_by_extensions, lines 76-78
_filter_by_extensions(fl, excluded) ==
    LET Kept(f) == f.extension \notin Range(excluded)
    IN  SelectSeq(fl, Kept)

RECURSIVE GroupIntoOverwrite(_, _)
GroupIntoOverwrite(groups, fl) ==
    IF fl = <<>> THEN groups
    ELSE LET file_info == Head(fl)
             known == {g \in 1..Len(groups) :
                          groups[g].prefix = file_info.prefix}
         IN  IF known = {}
             THEN GroupIntoOverwrite(
                      Append(groups, [prefix |-> file_info.prefix,
                                      files  |-> <<file_info>>]),
                      Tail(fl))
             ELSE LET g == CHOOSE x \in known : TRUE
                  IN  GroupIntoOverwrite(
                          [groups EXCEPT ![g].files = <<file_info>>],
                          Tail(fl))

\* _group_files_by_prefix, lines 80-90; the dict is the sequence of its
\* items in insertion order
RECURSIVE GroupInto(_, _)
GroupInto(groups, fl) ==
    IF fl = <<>> THEN groups
    ELSE LET file_info == fl[1]
             known == {g \in 1..Len(groups) :
                          groups[g].prefix = file_info.prefix}
         IN  IF known = {}
             THEN GroupInto(Append(groups, [prefix |-> file_info.prefix,
                                            files  |-> <<file_info>>]),
                            Tail(fl))
             ELSE LET g == CHOOSE x \in known : TRUE
                  IN  GroupInto([groups EXCEPT ![g].files =
                                     Append(@, file_info)],
                                Tail(fl))

_group_files_by_prefix(fl) == GroupInto(<<>>, fl)

\* --------------------------------------------- directory scanner: inputs
MaxEntries == 2      \* entries of the scanned directory

SampleNames ==
    { <<"a", "_", "_", "1", ".", "d">>,
      <<"a", "_", "_", "2", ".", "p", "l">>,
      <<"b", "_", "_", "1", ".", "P", "L">>,
      <<"_", "_", "x", ".", "d">>,
      <<"a", "_", "b", ".", "d">>,
      <<"a", "_", "_", "b", "_", "_", "c">>,
      <<"b", "_", "_", "_", "c", ".", "p", "l", ".", "d">>,
      <<".", "a", "_", "_", "b">> }

\* what happens when the scanner looks at an entry:
\*   "file"            is_file() is true and stat() succeeds
\*   "not_file"        is_file() is false (directory, vanished entry)
\*   "is_file_raises"  is_file() raises an OSError (PermissionError)
\*   "stat_raises"     is_file() is true and stat() raises an OSError
Accesses == {"file", "not_file", "is_file_raises", "stat_raises"}

DirEntries ==
    {[name |-> n, access |-> a, st_mtime |-> 0] :
         n \in SampleNames, a \in Accesses}

Directories ==
    UNION { {d \in [1..k -> DirEntries] :
                \A a, b \in 1..k : d[a].name = d[b].name => a = b}
            : k \in 0..MaxEntries }

ExclusionArgs ==
    { <<>>,
      << <<".", "p", "l">> >>,
      << <<".", "D">> >>,
      << <<".", "d">>, <<".", "P", "L">> >> }

ScanInit ==
    /\ excluded_arg \in ExclusionArgs
    /\ excluded_extensions = <<>>
    /\ target_kind \in {"dir", "missing", "not_dir", "unreadable"}
    /\ entries \in (IF target_kind = "dir" THEN Directories ELSE {<<>>})
    /\ pos = 0
    /\ scanned_files = <<>>
    /\ warnings = <<>>
    /\ file_groups = <<>>
    /\ scan_error = NoError
    /\ scan_pc = "new"
    /\ RulesIdle
    /\ files_to_delete = <<>>
    /\ PurgeIdle
    /\ MainIdle
    /\ ReporterIdle
    /\ ConfigIdle

ValueError(msg) == [exc |-> "ValueError", msg |-> msg]

\* FileScanner.__init__
FileScannerInit ==
    /\ scan_pc = "new"
    /\ excluded_extensions' = Normalize(excluded_arg)
    /\ scan_pc' = "ready"
    /\ UNCHANGED <<excluded_arg, target_kind, entries, pos, scanned_files,
                   warnings, file_groups, scan_error>>
    /\ UNCHANGED <<rulesVars, purgeVars, mainVars>>
    /\ UNCHANGED <<reporterVars, configVars>>

\* lines 21-22
ScanMissing ==
    /\ scan_pc = "ready"
    /\ target_kind = "missing"
    /\ scan_error' = ValueError("Directory does not exist")
    /\ scan_pc' = "raised"
    /\ UNCHANGED <<excluded_arg, excluded_extensions, target_kind, entries,
                   pos, scanned_files, warnings, file_groups>>
    /\ UNCHANGED <<rulesVars, purgeVars, mainVars>>
    /\ UNCHANGED <<reporterVars, configVars>>

\* lines 24-25
ScanNotDir ==
    /\ scan_pc = "ready"
    /\ target_kind = "not_dir"
    /\ scan_error' = ValueError("Path is not a directory")
    /\ scan_pc' = "raised"
    /\ UNCHANGED <<excluded_arg, excluded_extensions, target_kind, entries,
                   pos, scanned_files, warnings, file_groups>>
    /\ UNCHANGED <<rulesVars, purgeVars, mainVars>>
    /\ UNCHANGED <<reporterVars, configVars>>

\* lines 41 and 71-72: os.scandir raises
ScandirRaises ==
    /\ scan_pc = "ready"
    /\ target_kind = "unreadable"
    /\ scan_error' = ValueError("Cannot access directory")
    /\ scan_pc' = "raised"
    /\ UNCHANGED <<excluded_arg, excluded_extensions, target_kind, entries,
                   pos, scanned_files, warnings, file_groups>>
    /\ UNCHANGED <<rulesVars, purgeVars, mainVars>>
    /\ UNCHANGED <<reporterVars, configVars>>

\* lines 38-41: os.scandir opens the directory
ScandirOpens ==
    /\ scan_pc = "ready"
    /\ target_kind = "dir"
    /\ scanned_files' = <<>>
    /\ pos' = 1
    /\ scan_pc' = "entries"
    /\ UNCHANGED <<excluded_arg, excluded_extensions, target_kind, entries,
                   warnings, file_groups, scan_error>>
    /\ UNCHANGED <<rulesVars, purgeVars, mainVars>>
    /\ UNCHANGED <<reporterVars, configVars>>

AtEntry == scan_pc = "entries" /\ pos <= Len(entries)

Skip ==
    /\ pos' = pos + 1
    /\ UNCHANGED <<excluded_arg, excluded_extensions, target_kind, entries,
                   scanned_files, warnings, file_groups, scan_error, scan_pc>>
    /\ UNCHANGED <<rulesVars, purgeVars, mainVars>>

\* line 43: is_file() is false
EntryNotFile ==
    /\ AtEntry
    /\ entries[pos].access = "not_file"
    /\ Skip
    /\ UNCHANGED <<reporterVars, configVars>>

\* line 43 is outside the try of line 44: an OSError of is_file() reaches
\* the handler of lines 71-72, which ends the scan with a ValueError
EntryIsFileRaises ==
    /\ AtEntry
    /\ entries[pos].access = "is_file_raises"
    /\ scan_error' = ValueError("Cannot access directory")
    /\ scan_pc' = "raised"
    /\ UNCHANGED <<excluded_arg, excluded_extensions, target_kind, entries,
                   pos, scanned_files, warnings, file_groups>>
    /\ UNCHANGED <<rulesVars, purgeVars, mainVars>>
    /\ UNCHANGED <<reporterVars, configVars>>

\* lines 45 and 66-69: stat() raises, the warning is printed and the
\* loop goes on
EntryStatRaises ==
    /\ AtEntry
    /\ entries[pos].access = "stat_raises"
    /\ warnings' = Append(warnings, entries[pos].name)
    /\ pos' = pos + 1
    /\ UNCHANGED <<excluded_arg, excluded_extensions, target_kind, entries,
                   scanned_files, file_groups, scan_error, scan_pc>>
    /\ UNCHANGED <<rulesVars, purgeVars, mainVars>>
    /\ UNCHANGED <<reporterVars, configVars>>

\* lines 50-54: no "__" in the name
EntryNoDelimiter ==
    /\ AtEntry
    /\ entries[pos].access = "file"
    /\ ~InName(entries[pos].name)
    /\ Skip
    /\ UNCHANGED <<reporterVars, configVars>>

\* lines 50-64: the FileInfo is built and appended
EntryExtracted ==
    /\ AtEntry
    /\ entries[pos].access = "file"
    /\ InName(entries[pos].name)
    /\ scanned_files' = Append(scanned_files, FileInfo(entries[pos]))
    /\ pos' = pos + 1
    /\ UNCHANGED <<excluded_arg, excluded_extensions, target_kind, entries,
                   warnings, file_groups, scan_error, scan_pc>>
    /\ UNCHANGED <<rulesVars, purgeVars, mainVars>>
    /\ UNCHANGED <<reporterVars, configVars>>

\* lines 74 and 30-34: the entries are exhausted; filter, group, return
ScanDirectoryReturn ==
    /\ scan_pc = "entries"
    /\ pos > Len(entries)
    /\ file_groups' = _group_files_by_prefix(
                          _filter_by_extensions(scanned_files,
                                                excluded_extensions))
    /\ scan_pc' = "returned"
    /\ UNCHANGED <<excluded_arg, excluded_extensions, target_kind, entries,
                   pos, scanned_files, warnings, scan_error>>
    /\ UNCHANGED <<rulesVars, purgeVars, mainVars>>
    /\ UNCHANGED <<reporterVars, configVars>>

ScanNext ==
    \/ FileScannerInit
    \/ ScanMissing
    \/ ScanNotDir
    \/ ScandirRaises
    \/ ScandirOpens
    \/ EntryNotFile
    \/ EntryIsFileRaises
    \/ EntryStatRaises
    \/ EntryNoDelimiter
    \/ EntryExtracted
    \/ ScanDirectoryReturn

SpecScan == ScanInit /\ [][ScanNext]_vars

\* ----------------------------------------------------------- main: code
\* One run of main (src/src/main.py).  The resource limits of
\* resource_manager.py (200000 files, 300 s, 512 MB) lie far above what a
\* run over at most MaxEntries entries uses, and the reports directory is
\* writable: the exits those failures take are not part of this model.

MinFilesUpper == 10000   \* max_val of min_files_to_keep
MaxAgeUpper == 36500     \* max_val of max_age_days

ValidInputsNoLowerBound(c, kind) ==
    /\ kind = "dir"
    /\ c.min_files_to_keep <= MinFilesUpper
    /\ c.max_age_days <= MaxAgeUpper

\* validate_all_inputs: the target directory exists, is a directory and
\* can be listed; both integers lie between 0 and their upper limit
ValidInputs(c, kind) ==
    /\ kind = "dir"
    /\ c.min_files_to_keep >= 0
    /\ c.min_files_to_keep <= MinFilesUpper
    /\ c.max_age_days >= 0
    /\ c.max_age_days <= MaxAgeUpper

\* sum(len(files) for files in file_groups.values())
RECURSIVE TotalFiles(_)
TotalFiles(groups) ==
    IF groups = <<>> THEN 0
    ELSE Len(Head(groups).files) + TotalFiles(Tail(groups))

MoreGroupsFirstOnly(g, groups) == g <= Min(1, Len(groups))

\* `for prefix, files in file_groups.items()`: the loop goes on while a
\* group is left
MoreGroups(g, groups) == g <= Len(groups)

\* `len(purge_result.files_to_delete) <= 50`: the longest list of files
\* the report still enumerates
ReportCutoff == 50

CountAll(s, prefix) == Len(s)

\* `sum(1 for f in ... if f.prefix == prefix)`: the records of s that
\* carry the prefix
CountPrefix(s, prefix) ==
    Cardinality({j \in 1..Len(s) : s[j].prefix = prefix})

\* the "File Set Details" block: for every group in dictionary order its
\* prefix, its total and the two counts
SetDetails(result, groups) ==
    [g \in 1..Len(groups) |->
        [prefix    |-> groups[g].prefix,
         total     |-> Len(groups[g].files),
         to_delete |-> CountPrefix(result.files_to_delete, groups[g].prefix),
         preserved |-> CountPrefix(result.files_preserved, groups[g].prefix)]]

\* `f"  - {error}"`: the line of one error
ErrorLine(error) == [bullet |-> error]

ErrorsSectionFirstOnly(errs) ==
    IF errs # <<>>
    THEN << [header |-> "Errors:"], ErrorLine(errs[1]) >>
    ELSE <<>>

\* the "Errors:" block: absent when there is no error, otherwise the
\* header and one line for each error in order
ErrorsSection(errs) ==
    IF errs # <<>>
    THEN << [header |-> "Errors:"] >>
             \o [j \in 1..Len(errs) |-> ErrorLine(errs[j])]
    ELSE <<>>

\* `f"  - {file_info.name} ({mtime})"`: the line of one file to delete
FileLine(file_info) ==
    [bullet |-> [name          |-> file_info.name,
                 modified_time |-> file_info.modified_time]]

\* `f"Files to Delete: {n} files (list truncated)"`
TruncationNotice(n) == [files_to_delete |-> n, note |-> "list truncated"]

ListsFilesBelowCutoff(n) == n # 0 /\ n < ReportCutoff

\* `if purge_result.files_to_delete and len(...) <= 50`
ListsFiles(n) == n # 0 /\ n <= ReportCutoff

\* the "Files to Delete" block: the enumerated list, or the truncation
\* notice, or nothing
FilesSection(fs) ==
    IF ListsFiles(Len(fs))
    THEN << [header |-> "Files to Delete:"] >>
             \o [j \in 1..Len(fs) |-> FileLine(fs[j])]
    ELSE IF Len(fs) > ReportCutoff
         THEN << TruncationNotice(Len(fs)) >>
         ELSE <<>>

\* the report generate_report writes: the configuration, the summary, the
\* file set details, the errors and the files to delete
generate_report(result, c, groups) ==
    [status              |-> "saved",
     dry_run             |-> c.dry_run,
     min_files_to_keep   |-> c.min_files_to_keep,
     max_age_days        |-> c.max_age_days,
     total_files_scanned |-> result.total_files_scanned,
     file_sets_found     |-> result.file_sets_found,
     files_to_delete     |-> Len(result.files_to_delete),
     files_preserved     |-> Len(result.files_preserved),
     actual_deletions    |-> result.actual_deletions,
     set_details         |-> SetDetails(result, groups),
     errors_section      |-> ErrorsSection(result.errors),
     files_section       |-> FilesSection(result.files_to_delete)]

DetermineResultSwapped(delete, preserve) ==
    [files_to_delete |-> preserve, files_to_preserve |-> delete]

\* `return files_to_delete, files_to_preserve`, unpacked by main in the
\* same order
DetermineResult(delete, preserve) ==
    [files_to_delete |-> delete, files_to_preserve |-> preserve]

\* ---------------------------------------------------------- main: inputs
MainKeep == 1        \* the configured min_files_to_keep is -1..MainKeep
MainAge == 1         \* the configured max_age_days is -1..MainAge

MainConfigs ==
    [min_files_to_keep : -1..MainKeep,
     max_age_days      : -1..MainAge,
     dry_run           : BOOLEAN]

\* The entries of the target directory: two files of group "a", one of
\* the group with the empty key and one name without delimiter, each old
\* (modified at 0) or new (modified at MaxTime); one entry whose stat
\* fails, one whose is_file fails, one subdirectory.
MainNames ==
    { <<"a", "_", "_", "1", ".", "d">>,
      <<"a", "_", "_", "b", "_", "_", "c">>,
      <<"_", "_", "x", ".", "d">>,
      <<"a", "_", "b", ".", "d">> }

MainEntries ==
    {[name |-> n, access |-> "file", st_mtime |-> t] :
         n \in MainNames, t \in {0, MaxTime}}
    \cup
    { [name |-> <<"a", "_", "_", "1", ".", "d">>,
       access |-> "stat_raises", st_mtime |-> 0],
      [name |-> <<"a", "_", "_", "b", "_", "_", "c">>,
       access |-> "is_file_raises", st_mtime |-> 0],
      [name |-> <<"a", "_", "b", ".", "d">>,
       access |-> "not_file", st_mtime |-> 0] }

MainDirectories ==
    UNION { {d \in [1..k -> MainEntries] :
                \A a, b \in 1..k : d[a].name = d[b].name => a = b}
            : k \in 0..MaxEntries }

\* config.excluded_extensions: empty, or excluding the files named *.d
MainExclusionArgs == { <<>>, << <<".", "d">> >> }

MainInit ==
    /\ config \in MainConfigs
    /\ group_i = 0
    /\ determined_preserve = <<>>
    /\ determined_delete = <<>>
    /\ total_files = 0
    /\ file_sets_found = 0
    /\ report = NoReport
    /\ exit_code = "none"
    /\ main_pc = "start"
    \* the components do not exist yet
    /\ min_files_to_keep = 0
    /\ max_age_days = 0
    /\ clock = MaxTime - 1
    /\ files = <<>>
    /\ now = 0
    /\ sorted_list = <<>>
    /\ files_to_preserve = <<>>
    /\ files_to_delete = <<>>
    /\ rules_pc = "idle"
    /\ dry_run = FALSE
    /\ purge_i = 0
    /\ actual_deletions = 0
    /\ errors = <<>>
    /\ attempts = <<>>
    /\ purge_result = NoResult
    /\ purge_pc = "idle"
    /\ excluded_arg \in MainExclusionArgs
    /\ excluded_extensions = <<>>
    /\ target_kind \in {"dir", "missing", "not_dir", "unreadable"}
    /\ entries \in (IF target_kind = "dir" THEN MainDirectories ELSE {<<>>})
    /\ disk = {entries[j].name : j \in 1..Len(entries)}
    /\ pos = 0
    /\ scanned_files = <<>>
    /\ warnings = <<>>
    /\ file_groups = <<>>
    /\ scan_error = NoError
    /\ scan_pc = "idle"
    /\ ReporterIdle
    /\ ConfigIdle

\* --------------------------------------------------------- main: actions

\* lines 78-108: a validation fails and main returns 1
ValidationRejects ==
    /\ main_pc = "start"
    /\ ~ValidInputs(config, target_kind)
    /\ exit_code' = 1
    /\ main_pc' = "exit"
    /\ UNCHANGED <<config, group_i, determined_preserve, determined_delete,
                   total_files, file_sets_found, report>>
    /\ UNCHANGED <<rulesVars, purgeVars, scanVars>>
    /\ UNCHANGED <<reporterVars, configVars>>

\* lines 78-108: every validation passes
ValidationPasses ==
    /\ main_pc = "start"
    /\ ValidInputs(config, target_kind)
    /\ main_pc' = "init"
    /\ UNCHANGED <<config, group_i, determined_preserve, determined_delete,
                   total_files, file_sets_found, report, exit_code>>
    /\ UNCHANGED <<rulesVars, purgeVars, scanVars>>
    /\ UNCHANGED <<reporterVars, configVars>>

\* the environment: the target directory is removed, replaced by a file
\* or made unreadable after it was validated and before it is scanned
TargetChanges ==
    /\ main_pc = "init"
    /\ target_kind' \in {"missing", "not_dir", "unreadable"}
    /\ disk' = IF target_kind' = "unreadable" THEN disk ELSE {}
    /\ UNCHANGED <<excluded_arg, excluded_extensions, entries, pos,
                   scanned_files, warnings, file_groups, scan_error, scan_pc>>
    /\ UNCHANGED <<dry_run, purge_i, actual_deletions, errors, attempts,
                   purge_result, purge_pc>>
    /\ UNCHANGED <<rulesVars, mainVars>>
    /\ UNCHANGED <<reporterVars, configVars>>

\* lines 111-113 and 118: the components are created from the
\* configuration, scan_directory is called
InitializeComponents ==
    /\ main_pc = "init"
    /\ min_files_to_keep' = config.min_files_to_keep
    /\ max_age_days' = config.max_age_days
    /\ scan_pc' = "new"
    /\ main_pc' = "scan"
    /\ UNCHANGED <<clock, files, now, sorted_list, files_to_preserve,
                   files_to_delete, rules_pc>>
    /\ UNCHANGED <<excluded_arg, excluded_extensions, target_kind, entries,
                   pos, scanned_files, warnings, file_groups, scan_error>>
    /\ UNCHANGED <<config, group_i, determined_preserve, determined_delete,
                   total_files, file_sets_found, report, exit_code>>
    /\ UNCHANGED purgeVars
    /\ UNCHANGED <<reporterVars, configVars>>

\* lines 126-128: scan_directory raised ValueError and main returns 1
ScanFailed ==
    /\ main_pc = "scan"
    /\ scan_pc = "raised"
    /\ exit_code' = 1
    /\ main_pc' = "exit"
    /\ UNCHANGED <<config, group_i, determined_preserve, determined_delete,
                   total_files, file_sets_found, report>>
    /\ UNCHANGED <<rulesVars, purgeVars, scanVars>>
    /\ UNCHANGED <<reporterVars, configVars>>

\* lines 119-131 and 142, purge_engine lines 19-20: scan_directory
\* returned; the statistics are taken and determine_files_to_purge starts
ScanSucceeded ==
    /\ main_pc = "scan"
    /\ scan_pc = "returned"
    /\ total_files' = TotalFiles(file_groups)
    /\ file_sets_found' = Len(file_groups)
    /\ determined_preserve' = <<>>
    /\ determined_delete' = <<>>
    /\ group_i' = 1
    /\ main_pc' = "decide"
    /\ UNCHANGED <<config, report, exit_code>>
    /\ UNCHANGED <<rulesVars, purgeVars, scanVars>>
    /\ UNCHANGED <<reporterVars, configVars>>

\* purge_engine lines 22-23: the next group is handed to
\* _apply_preservation_rules
DetermineCall ==
    /\ main_pc = "decide"
    /\ rules_pc = "idle"
    /\ MoreGroups(group_i, file_groups)
    /\ files' = file_groups[group_i].files
    /\ rules_pc' = "call"
    /\ UNCHANGED <<min_files_to_keep, max_age_days, clock, now, sorted_list,
                   files_to_preserve, files_to_delete>>
    /\ UNCHANGED <<purgeVars, scanVars, mainVars>>
    /\ UNCHANGED <<reporterVars, configVars>>

\* purge_engine lines 23-25: the decision of the group is appended
DetermineExtend ==
    /\ main_pc = "decide"
    /\ rules_pc = "returned"
    /\ determined_preserve' = determined_preserve \o files_to_preserve
    /\ determined_delete' = determined_delete \o files_to_delete
    /\ group_i' = group_i + 1
    /\ rules_pc' = "idle"
    /\ UNCHANGED <<min_files_to_keep, max_age_days, clock, files, now,
                   sorted_list, files_to_preserve, files_to_delete>>
    /\ UNCHANGED <<config, total_files, file_sets_found, report, exit_code,
                   main_pc>>
    /\ UNCHANGED <<purgeVars, scanVars>>
    /\ UNCHANGED <<reporterVars, configVars>>

\* purge_engine line 27, main lines 142 and 155: the two lists are
\* returned and execute_purge is called with them
DetermineReturn ==
    /\ main_pc = "decide"
    /\ rules_pc = "idle"
    /\ ~MoreGroups(group_i, file_groups)
    /\ LET returned == DetermineResult(determined_delete, determined_preserve)
       IN  /\ files_to_delete' = returned.files_to_delete
           /\ files_to_preserve' = returned.files_to_preserve
    /\ dry_run' = config.dry_run
    /\ purge_pc' = "call"
    /\ main_pc' = "purge"
    /\ UNCHANGED <<min_files_to_keep, max_age_days, clock, files, now,
                   sorted_list, rules_pc>>
    /\ UNCHANGED <<disk, purge_i, actual_deletions, errors, attempts,
                   purge_result>>
    /\ UNCHANGED <<config, group_i, determined_preserve, determined_delete,
                   total_files, file_sets_found, report, exit_code>>
    /\ UNCHANGED scanVars
    /\ UNCHANGED <<reporterVars, configVars>>

\* lines 161-167: the result is completed, the report generated and saved
SaveReport ==
    /\ main_pc = "purge"
    /\ purge_pc = "returned"
    /\ LET result == [purge_result EXCEPT
                          !.total_files_scanned = total_files,
                          !.file_sets_found = file_sets_found,
                          !.files_preserved = files_to_preserve]
       IN  /\ purge_result' = result
           /\ report' = generate_report(result, config, file_groups)
    /\ main_pc' = "xlsx"
    /\ UNCHANGED <<dry_run, disk, purge_i, actual_deletions, errors, attempts,
                   purge_pc>>
    /\ UNCHANGED <<config, group_i, determined_preserve, determined_delete,
                   total_files, file_sets_found, exit_code>>
    /\ UNCHANGED <<rulesVars, scanVars>>
    /\ UNCHANGED <<reporterVars, configVars>>

\* lines 172 and 222-224: Config has no attribute generate_xlsx, the
\* AttributeError reaches `except Exception` and main returns 1
GenerateXlsxRaises ==
    /\ main_pc = "xlsx"
    /\ exit_code' = 1
    /\ main_pc' = "exit"
    /\ UNCHANGED <<config, group_i, determined_preserve, determined_delete,
                   total_files, file_sets_found, report>>
    /\ UNCHANGED <<rulesVars, purgeVars, scanVars>>
    /\ UNCHANGED <<reporterVars, configVars>>

MainNext ==
    \/ ValidationRejects
    \/ ValidationPasses
    \/ TargetChanges
    \/ InitializeComponents
    \/ FileScannerInit
    \/ ScanMissing
    \/ ScanNotDir
    \/ ScandirRaises
    \/ ScandirOpens
    \/ EntryNotFile
    \/ EntryIsFileRaises
    \/ EntryStatRaises
    \/ EntryNoDelimiter
    \/ EntryExtracted
    \/ ScanDirectoryReturn
    \/ ScanFailed
    \/ ScanSucceeded
    \/ DetermineCall
    \/ ClockTick
    \/ ApplyPreservationRules
    \/ DetermineExtend
    \/ DetermineReturn
    \/ ExecutePurgeBegin
    \/ RemoveSucceeds
    \/ RemoveFails
    \/ LoopExit
    \/ DryRunCount
    \/ ExecutePurgeReturn
    \/ SaveReport
    \/ GenerateXlsxRaises

SpecMain == MainInit /\ [][MainNext]_vars

\* ------------------------------------------------- main: long purge lists
MaxReportFiles == 52     \* a purge list has 0..MaxReportFiles files

\* the decimal digit of k
Digit(k) == <<"0", "1", "2", "3", "4", "5", "6", "7", "8", "9">>[k + 1]

\* the name of the j-th file of the directory: a__01, a__02, ...
ReportName(j) == <<"a", "_", "_", Digit(j \div 10), Digit(j % 10)>>

\* a directory of `fresh` recent files followed by `old` old ones
ReportEntries(fresh, old) ==
    [j \in 1..(fresh + old) |->
        [name     |-> ReportName(j),
         access   |-> "file",
         st_mtime |-> IF j <= fresh THEN MaxTime ELSE 0]]

\* main after execute_purge has returned, on a directory of one group
\* (prefix "a") in which the recent file, if any, was preserved and the
\* old files, up to MaxReportFiles of them, are the purge list
\* (min_files_to_keep 0, max_age_days 1), dry run or not
ReportInit ==
    \E old \in 0..MaxReportFiles, fresh \in 0..1, d \in BOOLEAN :
        /\ config = [min_files_to_keep |-> 0, max_age_days |-> 1,
                     dry_run |-> d]
        /\ excluded_arg = <<>>
        /\ excluded_extensions = Normalize(excluded_arg)
        /\ target_kind = "dir"
        /\ entries = ReportEntries(fresh, old)
        /\ pos = Len(entries) + 1
        /\ scanned_files = [j \in 1..Len(entries) |-> FileInfo(entries[j])]
        /\ warnings = <<>>
        /\ file_groups = IF scanned_files = <<>> THEN <<>>
                         ELSE << [prefix |-> <<"a">>,
                                  files  |-> scanned_files] >>
        /\ scan_error = NoError
        /\ scan_pc = "returned"
        /\ min_files_to_keep = 0
        /\ max_age_days = 1
        /\ clock = MaxTime
        /\ now = IF file_groups = <<>> THEN 0 ELSE MaxTime
        /\ files = scanned_files
        /\ sorted_list = files
        /\ files_to_preserve = SubSeq(files, 1, fresh)
        /\ files_to_delete = SubSeq(files, fresh + 1, fresh + old)
        /\ rules_pc = "idle"
        /\ group_i = Len(file_groups) + 1
        /\ determined_preserve = files_to_preserve
        /\ determined_delete = files_to_delete
        /\ total_files = Len(files)
        /\ file_sets_found = Len(file_groups)
        /\ report = NoReport
        /\ exit_code = "none"
        /\ main_pc = "purge"
        /\ dry_run = d
        /\ disk = {entries[j].name : j \in 1..Len(entries)}
                      \ (IF d THEN {}
                         ELSE {files_to_delete[j].path :
                                   j \in 1..Len(files_to_delete)})
        /\ purge_i = IF d THEN 1 ELSE Len(files_to_delete) + 1
        /\ actual_deletions = Len(files_to_delete)
        /\ errors = <<>>
        /\ attempts = IF d THEN <<>>
                      ELSE [j \in 1..Len(files_to_delete) |->
                               [path |-> files_to_delete[j].path,
                                ok |-> TRUE]]
        /\ purge_result = [total_files_scanned |-> 0,
                           file_sets_found     |-> 0,
                           files_to_delete     |-> files_to_delete,
                           files_preserved     |-> <<>>,
                           actual_deletions    |-> actual_deletions,
                           errors              |-> errors]
        /\ purge_pc = "returned"
        /\ ReporterIdle
        /\ ConfigIdle

ReportNext ==
    \/ SaveReport
    \/ GenerateXlsxRaises

SpecReport == ReportInit /\ [][ReportNext]_vars

\* ------------------------------------------------------- report file
\* Timestamps are datetime values to the minute: year, month, day, hour,
\* minute (seconds and microseconds are 0, the format does not use them).

Digits == {Digit(k) : k \in 0..9}

\* the decimal digit a character stands for
DigitValue(c) == CHOOSE k \in 0..9 : Digit(k) = c

\* int() of a string of digits
RECURSIVE Number(_)
Number(ds) ==
    IF ds = <<>> THEN 0
    ELSE 10 * Number(SubSeq(ds, 1, Len(ds) - 1)) + DigitValue(ds[Len(ds)])

\* str() of a natural number below 10000
Decimal(n) ==
    IF n < 10 THEN <<Digit(n)>>
    ELSE IF n < 100 THEN <<Digit(n \div 10), Digit(n % 10)>>
    ELSE IF n < 1000
         THEN <<Digit(n \div 100), Digit((n \div 10) % 10), Digit(n % 10)>>
         ELSE <<Digit(n \div 1000), Digit((n \div 100) % 10),
                Digit((n \div 10) % 10), Digit(n % 10)>>

Pad2Unpadded(n) == Decimal(n)

\* %m, %d, %H, %M of strftime: two digits, zero-padded
Pad2(n) == <<Digit(n \div 10), Digit(n % 10)>>

\* %Y of strftime: the year with century; the C library decides whether
\* a year below 1000 is padded to four digits (glibc does not pad)
strftimeY(year, padded) ==
    IF padded
    THEN <<Digit(year \div 1000), Digit((year \div 100) % 10),
           Digit((year \div 10) % 10), Digit(year % 10)>>
    ELSE Decimal(year)

\* timestamp.strftime('%Y%m%d-%H-%M')
strftime(ts, padded) ==
    strftimeY(ts.year, padded) \o Pad2(ts.month) \o Pad2(ts.day) \o <<"-">>
        \o Pad2(ts.hour) \o <<"-">> \o Pad2(ts.minute)

\* f"dirpurge_{...}.txt"
format_filename(ts, padded) ==
    <<"d", "i", "r", "p", "u", "r", "g", "e", "_">> \o strftime(ts, padded)
        \o <<".", "t", "x", "t">>

\* the days of a month of the proleptic Gregorian calendar
DaysIn(year, month) ==
    IF month = 2
    THEN IF year % 4 = 0 /\ (year % 100 # 0 \/ year % 400 = 0)
         THEN 29 ELSE 28
    ELSE IF month \in {4, 6, 9, 11} THEN 30 ELSE 31

\* `filename.replace("dirpurge_", "").replace(".txt", "")` of the test
DatePart(name) == SubSeq(name, 10, Len(name) - 4)

\* datetime.strptime(s, "%Y%m%d-%H-%M"): %Y is exactly four digits, the
\* other fields are two digits or one (two are tried first, month before
\* day), "-" matches itself, the whole string must match, and a day the
\* month does not have is a ValueError
strptime(s) ==
    LET Field(from, width) == SubSeq(s, from, from + width - 1)
        IsNumber(ds) == \A j \in 1..Len(ds) : ds[j] \in Digits
        Matches(w) ==
            LET dash1 == 5 + w.m + w.d
                dash2 == dash1 + 1 + w.H
            IN  /\ dash2 + w.M = Len(s)
                /\ s[dash1] = "-"
                /\ s[dash2] = "-"
                /\ IsNumber(Field(1, 4))
                /\ IsNumber(Field(5, w.m))
                /\ IsNumber(Field(5 + w.m, w.d))
                /\ IsNumber(Field(dash1 + 1, w.H))
                /\ IsNumber(Field(dash2 + 1, w.M))
                /\ Number(Field(5, w.m)) \in 1..12
                /\ Number(Field(5 + w.m, w.d)) \in 1..31
                /\ Number(Field(dash1 + 1, w.H)) \in 0..23
                /\ Number(Field(dash2 + 1, w.M)) \in 0..59
        Widths == {w \in [{"m", "d", "H", "M"} -> {1, 2}] : Matches(w)}
    IN  IF Widths = {}
        THEN [exc |-> "ValueError"]
        ELSE LET w == CHOOSE x \in Widths :
                          \A y \in Widths : x.m >= y.m
                 dash1 == 5 + w.m + w.d
                 dash2 == dash1 + 1 + w.H
                 year == Number(Field(1, 4))
                 month == Number(Field(5, w.m))
                 day == Number(Field(5 + w.m, w.d))
             IN  IF year = 0 \/ day > DaysIn(year, month)
                 THEN [exc |-> "ValueError"]
                 ELSE [year   |-> year,
                       month  |-> month,
                       day    |-> day,
                       hour   |-> Number(Field(dash1 + 1, w.H)),
                       minute |-> Number(Field(dash2 + 1, w.M))]

\* ErrorHandler.validate_timestamp: from 1970-01-01 00:00 to
\* 2100-01-01 00:00, both included
validate_timestamp(ts) ==
    \/ ts.year \in 1970..2099
    \/ ts.year = 2100 /\ ts.month = 1 /\ ts.day = 1 /\ ts.hour = 0
           /\ ts.minute = 0

\* ------------------------------------------------- report file: inputs
\* the years, days, hours and minutes tried: the ends of datetime's range,
\* the ends of the range validate_timestamp accepts, and values with one,
\* two, three and four digits
SampleYears == {1, 99, 999, 1000, 1969, 1970, 2024, 2099, 2100, 9999}

SampleDays == {1, 9, 10, 28, 29, 30, 31}

SampleHours == {0, 9, 10, 23}

SampleMinutes == {0, 9, 10, 59}

Timestamps ==
    {ts \in [year : SampleYears, month : 1..12, day : SampleDays,
             hour : SampleHours, minute : SampleMinutes] :
         ts.day <= DaysIn(ts.year, ts.month)}

FilenameInit ==
    /\ timestamp \in Timestamps
    /\ year_padded \in BOOLEAN
    /\ filename = <<>>
    /\ parsed = NotParsed
    /\ RulesIdle
    /\ files_to_delete = <<>>
    /\ PurgeIdle
    /\ ScanIdle
    /\ MainIdle
    /\ ConfigIdle

\* save_report lines 94-96: the file is named after the timestamp
SaveReportFile ==
    /\ filename = <<>>
    /\ filename' = format_filename(timestamp, year_padded)
    /\ UNCHANGED <<timestamp, year_padded, parsed>>
    /\ UNCHANGED <<rulesVars, purgeVars, scanVars, mainVars, configVars>>

\* the date part of the name is read back with the same pattern
ParseFilename ==
    /\ filename # <<>>
    /\ parsed = NotParsed
    /\ parsed' = strptime(DatePart(filename))
    /\ UNCHANGED <<timestamp, year_padded, filename>>
    /\ UNCHANGED <<rulesVars, purgeVars, scanVars, mainVars, configVars>>

FilenameNext ==
    \/ SaveReportFile
    \/ ParseFilename

SpecFilename == FilenameInit /\ [][FilenameNext]_vars

\* ------------------------------------------------------- configuration
\* A dictionary is a function from its keys.  The optional value of a
\* command-line argument is None or a one-element sequence.  Of the
\* settings, min_files_to_keep, dry_run and email_settings are modelled,
\* and of EmailConfig the fields send_email, smtp_server, smtp_port and
\* smtp_use_tls (the other string fields are treated as smtp_server is).

None == <<>>

\* the value of email_settings when the INI file has no [email] section
NoEmail == [none |-> TRUE]

\* the default of EmailConfig.smtp_port, also the literal of `or 25` and
\* of `!= 25`
DefaultSmtpPort == 25

EmptyDict == [k \in {} |-> TRUE]

\* a dictionary with the key only if the condition holds
Entry(condition, key, value) ==
    IF condition THEN key :> value ELSE EmptyDict

\* parse_cli_args, from the parsed namespace on: the general settings
\* that are not None, dry_run only if set, and an EmailConfig if any
\* email argument is neither None nor False
parse_cli_args(a) ==
    LET email_given ==
            \/ a.send_email
            \/ a.smtp_server # None
            \/ a.smtp_port # None
            \/ a.smtp_use_tls
        email_config ==
            [send_email   |-> a.send_email,
             smtp_server  |-> IF a.smtp_server # None /\ a.smtp_server[1] # ""
                              THEN a.smtp_server[1] ELSE "",
             smtp_port    |-> IF a.smtp_port # None /\ a.smtp_port[1] # 0
                              THEN a.smtp_port[1] ELSE DefaultSmtpPort,
             smtp_use_tls |-> a.smtp_use_tls]
    IN  Entry(a.min_files_to_keep # None, "min_files_to_keep",
              IF a.min_files_to_keep # None THEN a.min_files_to_keep[1]
              ELSE 0)
        @@ Entry(a.dry_run, "dry_run", TRUE)
        @@ Entry(email_given, "email_settings", email_config)

\* lines 312-321: the EmailConfig built when both sides have one
MergeEmail(value, existing_email) ==
    [send_email   |-> IF value.send_email THEN value.send_email
                      ELSE existing_email.send_email,
     smtp_server  |-> IF value.smtp_server # "" THEN value.smtp_server
                      ELSE existing_email.smtp_server,
     smtp_port    |-> IF value.smtp_port # DefaultSmtpPort
                      THEN value.smtp_port
                      ELSE existing_email.smtp_port,
     smtp_use_tls |-> IF value.smtp_use_tls THEN value.smtp_use_tls
                      ELSE existing_email.smtp_use_tls]

\* merge_configs: a copy of the INI dictionary, updated key by key
merge_configs(ini, cli) ==
    LET Assigned == {k \in DOMAIN cli :
                        k = "email_settings" => cli[k] # NoEmail}
    IN  [k \in DOMAIN ini \cup Assigned |->
            IF k \notin Assigned THEN ini[k]
            ELSE IF k # "email_settings" THEN cli[k]
            ELSE IF k \notin DOMAIN ini \/ ini[k] = NoEmail THEN cli[k]
            ELSE MergeEmail(cli[k], ini[k])]

\* ----------------------------------------------- configuration: inputs
EmailConfigs ==
    [send_email : BOOLEAN, smtp_server : {"", "ini_server"},
     smtp_port : {DefaultSmtpPort, 465}, smtp_use_tls : BOOLEAN]

\* what load_config_from_ini returns: {} for a missing file, otherwise
\* the general settings and email_settings, None without [email] section
IniConfigs ==
    {EmptyDict} \cup
    {("min_files_to_keep" :> m) @@ ("dry_run" :> d) @@ ("email_settings" :> e) :
         m \in {0, 1}, d \in BOOLEAN, e \in {NoEmail} \cup EmailConfigs}

\* the namespaces argparse can return for the modelled arguments
CliArgs ==
    [min_files_to_keep : {None, <<0>>, <<1>>},
     dry_run           : BOOLEAN,
     send_email        : BOOLEAN,
     smtp_server       : {None} \cup {<<v>> : v \in {"", "cli_server"}},
     smtp_port         : {None} \cup {<<v>> : v \in {DefaultSmtpPort, 587}},
     smtp_use_tls      : BOOLEAN]

ConfigInit ==
    /\ ini_config \in IniConfigs
    /\ cli_args \in CliArgs
    /\ cli_config = NoConfig
    /\ merged_config = NoConfig
    /\ RulesIdle
    /\ files_to_delete = <<>>
    /\ PurgeIdle
    /\ ScanIdle
    /\ MainIdle
    /\ ReporterIdle

\* main line 45
ParseCliArgs ==
    /\ cli_config = NoConfig
    /\ cli_config' = parse_cli_args(cli_args)
    /\ UNCHANGED <<ini_config, cli_args, merged_config>>
    /\ UNCHANGED <<rulesVars, purgeVars, scanVars, mainVars, reporterVars>>

\* main line 76
MergeConfigs ==
    /\ cli_config # NoConfig
    /\ merged_config = NoConfig
    /\ merged_config' = merge_configs(ini_config, cli_config)
    /\ UNCHANGED <<ini_config, cli_args, cli_config>>
    /\ UNCHANGED <<rulesVars, purgeVars, scanVars, mainVars, reporterVars>>

ConfigNext ==
    \/ ParseCliArgs
    \/ MergeConfigs

SpecConfig == ConfigInit /\ [][ConfigNext]_vars

\* ------------------------------------------- retention engine: claims

\* 0-based position of a record of the group in newest-first order, with
\* records of equal modification time kept in their input order (the path
\* of a record of Groups is its input position)
Rank(r) ==
    Cardinality({q \in 1..Len(files) :
        \/ files[q].modified_time > r.modified_time
        \/ files[q].modified_time = r.modified_time /\ q < r.path})

Threshold == now - max_age_days * TicksPerDay

\* C1: a record is in purge if and only if its rank is at least
\* min_files_to_keep AND its modified_time is at or before
\* now - max_age_days (the record exactly at the threshold is purged);
\* otherwise it is in preserve.
C1_PurgeIffRankAndOld ==
    rules_pc = "returned" =>
        \A r \in Range(files) :
            /\ (r \in Range(files_to_delete)) <=>
                   (Rank(r) >= min_files_to_keep /\ r.modified_time <= Threshold)
            /\ (r \in Range(files_to_preserve)) <=>
                   (Rank(r) < min_files_to_keep \/ r.modified_time > Threshold)

C1_Witness ==
    /\ rules_pc = "returned"
    /\ \E r \in Range(files_to_delete) : r.modified_time = Threshold
    /\ \E r \in Range(files_to_preserve) :
           Rank(r) >= min_files_to_keep /\ r.modified_time = Threshold + 1

NoDuplicates(s) == \A a, b \in 1..Len(s) : s[a] = s[b] => a = b

\* C2: preserve and purge are disjoint, hold no record twice, together
\* hold exactly the records of the group, and their lengths add up to the
\* size of the group; the empty group gives two empty lists.
C2_Partition ==
    rules_pc = "returned" =>
        /\ Range(files_to_preserve) \cap Range(files_to_delete) = {}
        /\ NoDuplicates(files_to_preserve)
        /\ NoDuplicates(files_to_delete)
        /\ Range(files_to_preserve) \cup Range(files_to_delete) = Range(files)
        /\ Len(files_to_preserve) + Len(files_to_delete) = Len(files)
        /\ (files = <<>> => files_to_preserve = <<>> /\ files_to_delete = <<>>)

C2_Witness ==
    /\ rules_pc = "returned"
    /\ Len(files) >= 3
    /\ Len(files_to_preserve) >= 1
    /\ Len(files_to_delete) >= 2

\* C3: the min(m, k) newest records are in preserve whatever their age,
\* and a group of at most m records has an empty purge list.
C3_CountFloor ==
    rules_pc = "returned" =>
        /\ \A r \in Range(files) :
               Rank(r) < Min(min_files_to_keep, Len(files))
                   => r \in Range(files_to_preserve)
        /\ Len(files_to_preserve) >= Min(min_files_to_keep, Len(files))
        /\ (Len(files) <= min_files_to_keep => files_to_delete = <<>>)

C3_Witness ==
    /\ rules_pc = "returned"
    /\ min_files_to_keep >= 1
    /\ Len(files) > min_files_to_keep
    /\ \A r \in Range(files) : r.modified_time < Threshold
    /\ Len(files_to_preserve) = min_files_to_keep

\* C4: every record strictly newer than now - max_age_days is in preserve,
\* whatever its rank and whatever min_files_to_keep is (0 included).
C4_AgeRule ==
    rules_pc = "returned" =>
        \A r \in Range(files) :
            r.modified_time > Threshold => r \in Range(files_to_preserve)

C4_Witness ==
    /\ rules_pc = "returned"
    /\ min_files_to_keep = 0
    /\ \E r \in Range(files_to_preserve) :
           Rank(r) >= 1 /\ r.modified_time > Threshold
    /\ files_to_delete # <<>>

\* C15 as stated: with max_age_days = 0 the age rule preserves exactly the
\* records modified at now or later; an older record is preserved only by
\* a rank below min_files_to_keep.
C15_ZeroAgeKeepsNowOrLater ==
    (rules_pc = "returned" /\ max_age_days = 0) =>
        /\ Threshold = now
        /\ \A r \in Range(files) :
               r \in Range(files_to_preserve)
                   <=> (Rank(r) < min_files_to_keep
                           \/ r.modified_time >= now)

\* C15: with max_age_days = 0 the threshold is now and the age rule
\* preserves exactly the records modified strictly later than now; a
\* record modified at now or before is preserved only by a rank below
\* min_files_to_keep.
C15_ZeroAgeKeepsStrictlyLater ==
    (rules_pc = "returned" /\ max_age_days = 0) =>
        /\ Threshold = now
        /\ \A r \in Range(files) :
               r \in Range(files_to_preserve)
                   <=> (Rank(r) < min_files_to_keep
                           \/ r.modified_time > now)

C15_Witness ==
    /\ rules_pc = "returned"
    /\ max_age_days = 0
    /\ \E r \in Range(files_to_delete) : r.modified_time = now
    /\ \E r \in Range(files_to_preserve) :
           Rank(r) >= min_files_to_keep /\ r.modified_time > now

\* the age in whole days, at clock 0, of a record of ExampleGroups
AgeDays(r) == (0 - r.modified_time) \div TicksPerDay

AgesOf(s) == [j \in 1..Len(s) |-> AgeDays(s[j])]

PositionIn(s, r) == CHOOSE j \in 1..Len(s) : s[j] = r

\* sub keeps the relative order its records have in s
IsSubsequence(sub, s) ==
    /\ Range(sub) \subseteq Range(s)
    /\ \A a, b \in 1..Len(sub) :
           a < b => PositionIn(s, sub[a]) < PositionIn(s, sub[b])

\* C17: the sorted list is a permutation of the group in non-increasing
\* order of modified_time, and preserve and purge are each a subsequence
\* of it.
C17_SortedNewestFirst ==
    (rules_pc = "returned" /\ files # <<>>) =>
        /\ Len(sorted_list) = Len(files)
        /\ Range(sorted_list) = Range(files)
        /\ \A a, b \in 1..Len(sorted_list) :
               a < b => sorted_list[a].modified_time
                            >= sorted_list[b].modified_time
        /\ IsSubsequence(files_to_preserve, sorted_list)
        /\ IsSubsequence(files_to_delete, sorted_list)

C17_Witness ==
    /\ rules_pc = "returned"
    /\ Len(files) = MaxFiles
    /\ files[1].modified_time < files[2].modified_time
    /\ sorted_list # files
    /\ Len(files_to_preserve) >= 2
    /\ files_to_delete # <<>>

\* C18: the sort is a function of its input, and it is stable: two
\* records of equal modified_time keep in the sorted list the order they
\* had in the input (the path of a record is its input position).
C18_SortStable ==
    (rules_pc = "returned" /\ files # <<>>) =>
        /\ sorted_list = _sort_files_by_date(files)
        /\ _sort_files_by_date(sorted_list) = sorted_list
        /\ \A a, b \in 1..Len(sorted_list) :
               (a < b /\ sorted_list[a].modified_time
                             = sorted_list[b].modified_time)
                   => sorted_list[a].path < sorted_list[b].path

C18_Witness ==
    /\ rules_pc = "returned"
    /\ Len(files) = MaxFiles
    /\ files[1].modified_time = files[MaxFiles].modified_time
    /\ files[2].modified_time > files[1].modified_time
    /\ PositionIn(sorted_list, files[1]) + 1
           = PositionIn(sorted_list, files[MaxFiles])

\* C26: preserve is a prefix of the sorted list and purge the rest of it:
\* no purged record of the group is strictly newer than a preserved one.
C26_PreservePrefixPurgeSuffix ==
    (rules_pc = "returned" /\ files # <<>>) =>
        /\ sorted_list = files_to_preserve \o files_to_delete
        /\ \A p \in Range(files_to_preserve), d \in Range(files_to_delete) :
               d.modified_time <= p.modified_time

C26_Witness ==
    /\ rules_pc = "returned"
    /\ Len(files_to_preserve) > min_files_to_keep
    /\ min_files_to_keep > 0
    /\ files_to_delete # <<>>
    /\ sorted_list # files

\* the orders in which the records of s can arrive
Arrangements(s) ==
    { [j \in 1..Len(s) |-> s[p[j]]] :
          p \in {q \in [1..Len(s) -> 1..Len(s)] :
                    \A a, b \in 1..Len(s) : q[a] = q[b] => a = b} }

\* C28: with the same policy and the same now, the retention rule applied
\* to the preserve list of a group, in any order of arrival, purges
\* nothing and preserves every record of it.
C28_Idempotent ==
    rules_pc = "returned" =>
        \A again \in Arrangements(files_to_preserve) :
            LET r == _apply_preservation_rules(again, min_files_to_keep,
                                               max_age_days, now)
            IN  /\ r.delete = <<>>
                /\ Range(r.preserve) = Range(files_to_preserve)

C28_Witness ==
    /\ rules_pc = "returned"
    /\ Len(files_to_preserve) > min_files_to_keep
    /\ min_files_to_keep > 0
    /\ files_to_delete # <<>>
    /\ \E a, b \in 1..Len(files_to_preserve) :
           /\ a # b
           /\ files_to_preserve[a].modified_time
                  = files_to_preserve[b].modified_time

\* a max_age_days whose threshold lies before every modification time
LargeAge == MaxTime \div TicksPerDay + 1

\* C29: for the same group and the same now, a policy with a larger
\* min_files_to_keep or a larger max_age_days purges a subset of what the
\* policy of the call purges, and with max_age_days large enough nothing
\* is purged.
C29_MonotoneInPolicy ==
    rules_pc = "returned" =>
        /\ \A m2 \in min_files_to_keep..(PolicyKeep + 1),
              a2 \in max_age_days..(PolicyAge + LargeAge) :
               Range(_apply_preservation_rules(files, m2, a2, now).delete)
                   \subseteq Range(files_to_delete)
        /\ _apply_preservation_rules(files, min_files_to_keep, LargeAge,
                                     now).delete = <<>>

C29_Witness ==
    /\ rules_pc = "returned"
    /\ Len(files_to_delete) >= 2
    /\ \E a2 \in (max_age_days + 1)..PolicyAge :
           LET d == _apply_preservation_rules(files, min_files_to_keep, a2,
                                              now).delete
           IN  d # <<>> /\ Len(d) < Len(files_to_delete)
    /\ Len(_apply_preservation_rules(files, min_files_to_keep + 1,
                                     max_age_days, now).delete)
           < Len(files_to_delete)

\* ---------------------------------------------- purge executor: claims

Succeeded(a) == a.ok

Failed(a) == ~a.ok

PathsOf(s) == [j \in 1..Len(s) |-> s[j].path]

\* C5: with dry_run = true execute_purge never calls os.remove and takes
\* no file off the filesystem, and it returns actual_deletions equal to
\* the length of the purge list and an empty errors list, also when files
\* of the list do not exist.
C5_DryRunSafety ==
    dry_run =>
        /\ attempts = <<>>
        /\ purge_pc = "returned" =>
               /\ purge_result.actual_deletions = Len(files_to_delete)
               /\ purge_result.errors = <<>>

C5_Witness ==
    /\ dry_run
    /\ purge_pc = "returned"
    /\ Len(files_to_delete) >= 2
    /\ \E r \in Range(files_to_delete) : r.path \in disk
    /\ \E r \in Range(files_to_delete) : r.path \notin disk

\* C6: with dry_run = false os.remove is called once per record, in list
\* order, a failure not stopping the later calls; on return
\* actual_deletions + len(errors) = len(purge list), errors holds one
\* message per failed call, in order, and actual_deletions is the number
\* of files removed.
C6_BestEffortBatch ==
    ~dry_run =>
        /\ purge_pc = "loop" =>
               /\ Len(attempts) = purge_i - 1
               /\ PathsOf(attempts)
                      = PathsOf(SubSeq(files_to_delete, 1, purge_i - 1))
        /\ purge_pc = "returned" =>
               /\ PathsOf(attempts) = PathsOf(files_to_delete)
               /\ purge_result.actual_deletions + Len(purge_result.errors)
                      = Len(files_to_delete)
               /\ purge_result.actual_deletions
                      = Len(SelectSeq(attempts, Succeeded))
               /\ [j \in 1..Len(purge_result.errors) |->
                       purge_result.errors[j].failed_to_delete]
                      = PathsOf(SelectSeq(attempts, Failed))

C6_Witness ==
    /\ ~dry_run
    /\ purge_pc = "returned"
    /\ Len(attempts) >= 3
    /\ ~attempts[1].ok
    /\ attempts[2].ok
    /\ ~attempts[3].ok
    /\ purge_result.actual_deletions = 1

\* the calls of os.remove that raised, in order
FailedAttempts == SelectSeq(attempts, Failed)

\* the category a reader finds in a recorded message: that of the errno in
\* its text
CategoryOf(msg) ==
    CASE msg.os_error = "ENOENT" -> "FileNotFoundError"
      [] msg.os_error \in {"EACCES", "EPERM"} -> "PermissionError"
      [] OTHER -> "OSError"

DelimAt(name, q) ==
    q + 1 <= Len(name) /\ name[q] = "_" /\ name[q + 1] = "_"

HasDelim(name) == \E q \in 1..Len(name) : DelimAt(name, q)

\* key is the part of name before the first "__"
IsKeyOf(key, name) ==
    /\ Len(key) + 2 <= Len(name)
    /\ SubSeq(name, 1, Len(key)) = key
    /\ DelimAt(name, Len(key) + 1)
    /\ \A q \in 1..Len(key) : ~DelimAt(name, q)

\* the records of the returned groups
Returned == UNION {Range(file_groups[g].files) : g \in 1..Len(file_groups)}

ReturnedNames == {f.name : f \in Returned}

\* the entries the scanner could read: regular files whose stat succeeds
Readable == {e \in Range(entries) : e.access = "file"}

\* C7: every record scan_directory returns is in the group keyed by the
\* part of its name before the first "__", a readable file with "__" in
\* its name that the extension filter lets through is returned, and a
\* file without "__" in its name is in no group.
C7_GroupedByFirstDelimiter ==
    scan_pc = "returned" =>
        /\ \A g \in 1..Len(file_groups) :
               \A f \in Range(file_groups[g].files) :
                   /\ f.name \in {e.name : e \in Readable}
                   /\ IsKeyOf(file_groups[g].prefix, f.name)
        /\ \A e \in Readable :
               HasDelim(e.name)
               /\ FileInfo(e).extension \notin Range(excluded_extensions)
                   => e.name \in ReturnedNames
        /\ \A e \in Range(entries) :
               ~HasDelim(e.name) => e.name \notin ReturnedNames

C7_Witness ==
    /\ scan_pc = "returned"
    /\ \E g \in 1..Len(file_groups) :
           /\ file_groups[g].prefix = <<"a">>
           /\ \E f \in Range(file_groups[g].files) :
                  \E q \in 3..Len(f.name) : DelimAt(f.name, q)
    /\ \E e \in Readable : ~HasDelim(e.name)

\* C8: a file whose name starts with "__" is left out of the result, so
\* that no returned group has the empty key.
C8_NoEmptyGroupKey ==
    scan_pc = "returned" =>
        /\ \A g \in 1..Len(file_groups) : file_groups[g].prefix # <<>>
        /\ \A f \in Returned : ~DelimAt(f.name, 1)

\* the exclusion list as given, upper-cased
GivenExcluded == {upper(excluded_arg[j]) : j \in 1..Len(excluded_arg)}

\* C9: for every exclusion list E given to the scanner, the empty one
\* included, no returned record has an upper-cased extension equal to the
\* upper-cased form of a member of E, and every readable file with "__"
\* in its name whose extension is not in E is returned.
C9_ExtensionFilter ==
    scan_pc = "returned" =>
        /\ \A f \in Returned : upper(f.extension) \notin GivenExcluded
        /\ \A e \in Readable :
               HasDelim(e.name) /\ upper(suffix(e.name)) \notin GivenExcluded
                   => e.name \in ReturnedNames

\* C10: in a directory that can be opened, an entry whose file-type check
\* or stat call raises is skipped and nothing else: the scan never ends
\* with an error, and it returns the groups built from the other entries.
C10_PerFileFailureSkipped ==
    target_kind = "dir" =>
        /\ scan_pc # "raised"
        /\ scan_pc = "returned" =>
               \A e \in Readable :
                   HasDelim(e.name)
                   /\ FileInfo(e).extension \notin Range(excluded_extensions)
                       => e.name \in ReturnedNames

\* -------------------------------------------------------- main: claims

\* the files os.scandir listed at the start of the run
ListedNames == {entries[j].name : j \in 1..Len(entries)}

ScanErrorMessages ==
    {"Directory does not exist", "Path is not a directory",
     "Cannot access directory"}

\* C11: when the target path is missing, not a directory or unreadable,
\* scan_directory raises a scan error naming the path and returns no
\* groups; a scan error is raised for such a path only, never for a failure
\* on one file of a readable directory; and main then returns 1 without
\* having called os.remove.
C11_ScanErrorIsDirectoryLevel ==
    /\ (target_kind # "dir" /\ scan_pc \in {"returned", "raised"})
           => scan_pc = "raised"
    /\ scan_pc = "raised"
           => /\ scan_error.exc = "ValueError"
              /\ scan_error.msg \in ScanErrorMessages
              /\ file_groups = <<>>
              /\ target_kind # "dir"
    /\ (scan_pc = "raised" /\ main_pc = "exit")
           => /\ exit_code = 1
              /\ attempts = <<>>
              /\ report = NoReport

\* C12: a configuration with a negative min_files_to_keep or a negative
\* max_age_days is rejected with exit status 1 before the scanner, the
\* engine or the executor runs; nothing is deleted, no report is saved.
C12_NegativePolicyRejected ==
    (config.min_files_to_keep < 0 \/ config.max_age_days < 0)
        => /\ main_pc \in {"start", "exit"}
           /\ main_pc = "exit" => exit_code = 1
           /\ scan_pc = "idle"
           /\ rules_pc = "idle"
           /\ purge_pc = "idle"
           /\ attempts = <<>>
           /\ disk = ListedNames
           /\ report = NoReport

C12_Witness ==
    /\ main_pc = "exit"
    /\ config.min_files_to_keep >= 0
    /\ config.max_age_days < 0
    /\ target_kind = "dir"
    /\ entries # <<>>

\* C13: when the configuration is valid and the scan succeeds, main saves
\* the report and returns 0, whether or not deletions failed.
C13_ExitZeroAfterSuccessfulScan ==
    (main_pc = "exit" /\ scan_pc = "returned")
        => /\ report # NoReport
           /\ exit_code = 0

\* C14: the stages run in the order scan, group, decide, execute, report:
\* a decision is taken only on the groups of a scan that returned; the
\* executor is called, and os.remove with it, only when every group has
\* its decision; the report is saved only when execute_purge has returned
\* and, outside dry-run, every record of the purge list had its os.remove.
C14_StageOrder ==
    /\ (rules_pc # "idle" \/ group_i > 0) => scan_pc = "returned"
    /\ (purge_pc # "idle" \/ attempts # <<>>)
           => /\ group_i = Len(file_groups) + 1
              /\ rules_pc = "idle"
              /\ Len(determined_preserve) + Len(determined_delete)
                     = TotalFiles(file_groups)
              /\ files_to_delete = determined_delete
    /\ report # NoReport
           => /\ purge_pc = "returned"
              /\ ~dry_run => Len(attempts) = Len(files_to_delete)

C14_Witness ==
    /\ report # NoReport
    /\ Len(file_groups) = 2
    /\ Len(attempts) = 2

\* the two lists determine_files_to_purge would return if every group of
\* the sequence were judged against the clock reading t
RECURSIVE DecisionsAt(_, _)
DecisionsAt(groups, t) ==
    IF groups = <<>>
    THEN [preserve |-> <<>>, delete |-> <<>>]
    ELSE LET r == _apply_preservation_rules(Head(groups).files,
                      min_files_to_keep, max_age_days, t)
             rest == DecisionsAt(Tail(groups), t)
         IN  [preserve |-> r.preserve \o rest.preserve,
              delete   |-> r.delete \o rest.delete]

\* C27: when main has decided the groups of a run, there is one clock
\* reading against which every group was judged: the two lists are the
\* ones a single age threshold gives, however the clock advanced while
\* the groups were processed.
C27_SingleThreshold ==
    (main_pc \in {"purge", "xlsx", "exit"} /\ scan_pc = "returned") =>
        \E t \in 0..MaxTime :
            /\ determined_preserve = DecisionsAt(file_groups, t).preserve
            /\ determined_delete = DecisionsAt(file_groups, t).delete

\* C25: main hands to os.remove only members of the purge list, and when
\* main returns after a scan every listed file without "__" in its name,
\* every file whose extension is on the given exclusion list and every
\* file the retention rule preserved is still in the directory.
C25_OnlyPurgeListRemoved ==
    /\ \A j \in 1..Len(attempts) :
           attempts[j].path \in Range(PathsOf(determined_delete))
    /\ (main_pc = "exit" /\ scan_pc = "returned") =>
           \A e \in Range(entries) :
               \/ ~HasDelim(e.name)
               \/ upper(suffix(e.name)) \in GivenExcluded
               \/ e.name \in Range(PathsOf(determined_preserve))
               => e.name \in disk

C25_Witness ==
    /\ main_pc = "exit"
    /\ scan_pc = "returned"
    /\ ~dry_run
    /\ \E a \in Range(attempts) : a.ok /\ a.path \notin disk
    /\ \E e \in Range(entries) :
           /\ e.name \in disk
           /\ ~HasDelim(e.name) \/ e.name \in Range(PathsOf(determined_preserve))

\* C30: in the report main writes, each group's "to delete" and
\* "preserved" counts add up to the group's total, which is the number of
\* files of the group, there is one block per group, and the summary's
\* files to delete and files preserved add up to the total files scanned.
C30_ReportCountsAddUp ==
    report # NoReport =>
        /\ Len(report.set_details) = Len(file_groups)
        /\ \A g \in 1..Len(report.set_details) :
               LET d == report.set_details[g]
               IN  /\ d.prefix = file_groups[g].prefix
                   /\ d.total = Len(file_groups[g].files)
                   /\ d.to_delete + d.preserved = d.total
        /\ report.files_to_delete + report.files_preserved
               = report.total_files_scanned
        /\ report.total_files_scanned = TotalFiles(file_groups)

C30_Witness ==
    /\ report # NoReport
    /\ Len(report.set_details) = 2
    /\ \E g \in 1..2 : report.set_details[g].to_delete = 1
    /\ \E g \in 1..2 : report.set_details[g].preserved = 1

\* C21: the report main writes has no error block when the purge
\* collected no error, and otherwise the "Errors:" header followed by one
\* line for each collected error, carrying the error unchanged, in the
\* order the errors were collected.
C21_ErrorsReported ==
    report # NoReport =>
        /\ purge_result.errors = errors
        /\ errors = <<>> => report.errors_section = <<>>
        /\ errors # <<>> =>
               /\ Len(report.errors_section) = Len(errors) + 1
               /\ report.errors_section[1] = [header |-> "Errors:"]
               /\ \A j \in 1..Len(errors) :
                      report.errors_section[j + 1] = [bullet |-> errors[j]]

C21_Witness ==
    /\ report # NoReport
    /\ Len(errors) = 2
    /\ errors[1] # errors[2]

\* the positions of a report block that are lines of single files
FileLines(section) ==
    {j \in 1..Len(section) : "bullet" \in DOMAIN section[j]}

\* the positions of a report block that are truncation notices
Notices(section) ==
    {j \in 1..Len(section) : "note" \in DOMAIN section[j]}

\* C22: with n files to delete, the report lists the files one by one
\* (all n of them, by name, in order) exactly when 1 <= n <= 50, carries
\* the truncation notice with the count n and no file name exactly when
\* n > 50, and never has both.
C22_ListOrTruncation ==
    report # NoReport =>
        LET fs == purge_result.files_to_delete
            n == Len(fs)
            section == report.files_section
        IN  /\ FileLines(section) # {} <=> (1 <= n /\ n <= ReportCutoff)
            /\ FileLines(section) # {} =>
                   /\ Len(section) = n + 1
                   /\ \A j \in 1..n : section[j + 1].bullet.name = fs[j].name
            /\ Notices(section) # {} <=> n > ReportCutoff
            /\ Notices(section) # {} =>
                   section = << [files_to_delete |-> n,
                                 note |-> "list truncated"] >>
            /\ ~(FileLines(section) # {} /\ Notices(section) # {})

C22_Witness ==
    /\ report # NoReport
    /\ Len(purge_result.files_to_delete) = ReportCutoff
    /\ Len(report.files_section) = ReportCutoff + 1

C24_CliTakesPrecedence ==
    merged_config # NoConfig =>
        /\ cli_args.min_files_to_keep # None =>
               merged_config["min_files_to_keep"]
                   = cli_args.min_files_to_keep[1]
        /\ cli_args.dry_run => merged_config["dry_run"]
        /\ cli_args.send_email =>
               merged_config["email_settings"].send_email
        /\ cli_args.smtp_use_tls =>
               merged_config["email_settings"].smtp_use_tls
        /\ cli_args.smtp_server # None =>
               merged_config["email_settings"].smtp_server
                   = cli_args.smtp_server[1]
        /\ cli_args.smtp_port # None =>
               merged_config["email_settings"].smtp_port
                   = cli_args.smtp_port[1]

\* ------------------------------------------------------ grouping: claims

\* the argument scan_directory passes to _group_files_by_prefix
GroupingInput == _filter_by_extensions(scanned_files, excluded_extensions)

\* C19: _group_files_by_prefix returns a partition of its input: every
\* record is in exactly one group, once, and that group is keyed by the
\* record's prefix; the group sizes sum to the length of the input; no
\* group is empty and no key occurs twice.
C19_GroupingPartition ==
    scan_pc = "returned" =>
        /\ \A j \in 1..Len(GroupingInput) :
               \E g \in 1..Len(file_groups) :
                   /\ file_groups[g].prefix = GroupingInput[j].prefix
                   /\ Cardinality({q \in 1..Len(file_groups[g].files) :
                          file_groups[g].files[q] = GroupingInput[j]}) = 1
                   /\ \A h \in 1..Len(file_groups) :
                          GroupingInput[j] \in Range(file_groups[h].files)
                              => h = g
        /\ TotalFiles(file_groups) = Len(GroupingInput)
        /\ \A g \in 1..Len(file_groups) : file_groups[g].files # <<>>
        /\ \A g, h \in 1..Len(file_groups) :
               file_groups[g].prefix = file_groups[h].prefix => g = h

C19_Witness ==
    /\ scan_pc = "returned"
    /\ Len(GroupingInput) = MaxEntries
    /\ \E g \in 1..Len(file_groups) : Len(file_groups[g].files) >= 2
====
